---- MODULE Spec2Model ----
(***************************************************************************)
(* Model of the Commonwealth Connect pipeline: extract.py (paginated CSV   *)
(* fetch into SQLite table service_requests), transform.py (derived date   *)
(* parts and time_to_close_hours into service_requests_transformed),       *)
(* train_model.py (model artifact), prefect_flow.py (etl_flow) and the     *)
(* data loading / prediction part of app.py.                               *)
(***************************************************************************)
EXTENDS Integers, Sequences, FiniteSets, TLC

(* ------------------------------ bounds --------------------------------- *)
\* Number of distinct service requests that can exist at the remote source.
MaxRows == 4
\* extract.py line 12 sets PAGE_SIZE = 50000; the model scales the page down.
PAGE_SIZE == 2
\* How many times the remote dataset may change during one behaviour.
MaxSourceChanges == 2

(* --------------------------- optional values --------------------------- *)
\* NULL / NaN / NaT is the empty tuple, a present value v is <<v>>.
Absent == <<>>
Some(v) == <<v>>
IsAbsent(x) == x = <<>>

(* --------------------- timestamps and the calendar --------------------- *)
\* A timestamp as text is <<year, month, day, hour, minute, second>>; a parsed
\* timestamp (datetime64) is the number of seconds since 2025-01-01 00:00:00.
\* All timestamps of the model lie in 2025, which is not a leap year.
DaysBeforeMonth == <<0, 31, 59, 90, 120, 151, 181, 212, 243, 273, 304, 334>>
DayNames == <<"Monday", "Tuesday", "Wednesday", "Thursday", "Friday", "Saturday", "Sunday">>

\* parse_dates: text -> datetime
ParseTs(txt) ==
    IF IsAbsent(txt) THEN Absent
    ELSE LET t == txt[1]
         IN Some((DaysBeforeMonth[t[2]] + (t[3] - 1)) * 86400
                 + t[4] * 3600 + t[5] * 60 + t[6])

DayOfYear(secs) == secs \div 86400
MonthOf(secs) ==
    CHOOSE m \in 1..12 :
        /\ DaysBeforeMonth[m] <= DayOfYear(secs)
        /\ (m = 12 \/ DayOfYear(secs) < DaysBeforeMonth[m + 1])
DayOf(secs) == DayOfYear(secs) - DaysBeforeMonth[MonthOf(secs)] + 1
HourOf(secs) == (secs \div 3600) % 24
\* 2025-01-01 is a Wednesday
DayNameOf(secs) == DayNames[((DayOfYear(secs) + 2) % 7) + 1]

\* to_sql of a datetime column: datetime -> text
FormatTs(dt) ==
    IF IsAbsent(dt) THEN Absent
    ELSE LET s == dt[1]
         IN Some(<<2025, MonthOf(s), DayOf(s), HourOf(s), (s \div 60) % 60, s % 60>>)

\* Series.dt accessors: NaT gives NaN / None
DtMonth(dt) == IF IsAbsent(dt) THEN Absent ELSE Some(MonthOf(dt[1]))
DtDay(dt) == IF IsAbsent(dt) THEN Absent ELSE Some(DayOf(dt[1]))
DtYear(dt) == IF IsAbsent(dt) THEN Absent ELSE Some(2025)
DtHour(dt) == IF IsAbsent(dt) THEN Absent ELSE Some(HourOf(dt[1]))
DtDayName(dt) == IF IsAbsent(dt) THEN Absent ELSE Some(DayNameOf(dt[1]))
DtDate(dt) == IF IsAbsent(dt) THEN Absent ELSE Some(<<2025, MonthOf(dt[1]), DayOf(dt[1])>>)

(* ------------------------------ the source ----------------------------- *)
\* The rows the remote dataset can hold.  Row i is one service request; the
\* four shapes are: closed ticket, open ticket, closed ticket, and a ticket
\* with no creation timestamp.
RowIds == 1..MaxRows

RowShape(i) ==
    LET k == ((i - 1) % 4) + 1
    IN CASE k = 1 -> [issue_category |-> Some("Missed Recycling Pickup"),
                      ticket_created_date_time |-> Some(<<2025, 3, 14, 9, 30, 0>>),
                      ticket_closed_date_time |-> Some(<<2025, 3, 15, 10, 0, 0>>),
                      ticket_last_updated_date_time |-> Some(<<2025, 3, 15, 10, 0, 0>>)]
         [] k = 2 -> [issue_category |-> Some("Pothole"),
                      ticket_created_date_time |-> Some(<<2025, 1, 1, 23, 15, 0>>),
                      ticket_closed_date_time |-> Absent,
                      ticket_last_updated_date_time |-> Some(<<2025, 1, 2, 8, 0, 0>>)]
         [] k = 3 -> [issue_category |-> Some("Pothole"),
                      ticket_created_date_time |-> Some(<<2025, 6, 30, 12, 0, 0>>),
                      ticket_closed_date_time |-> Some(<<2025, 7, 1, 0, 0, 30>>),
                      ticket_last_updated_date_time |-> Absent]
         [] OTHER -> [issue_category |-> Absent,
                      ticket_created_date_time |-> Absent,
                      ticket_closed_date_time |-> Some(<<2025, 12, 31, 23, 59, 59>>),
                      ticket_last_updated_date_time |-> Some(<<2025, 12, 31, 23, 59, 59>>)]

\* One CSV record as pd.read_csv returns it (timestamps are still text).
RawRow(i) ==
    [c \in {"ticket_id", "issue_category", "ticket_created_date_time",
            "ticket_closed_date_time", "ticket_last_updated_date_time"} |->
        IF c = "ticket_id" THEN Some(i) ELSE RowShape(i)[c]]

Min(a, b) == IF a <= b THEN a ELSE b

\* The page the endpoint returns for $limit=limit&$offset=off.
Page(src, limit, off) ==
    IF off >= Len(src) THEN <<>> ELSE SubSeq(src, off + 1, Min(off + limit, Len(src)))

RECURSIVE Concat(_)
\* pd.concat(chunks, ignore_index=True)
Concat(cs) == IF cs = <<>> THEN <<>> ELSE Head(cs) \o Concat(Tail(cs))

(* ------------------------------ transform ------------------------------ *)
\* transform.py lines 14-18
datetime_cols == <<"ticket_created_date_time", "ticket_closed_date_time",
                   "ticket_last_updated_date_time">>

\* transform.py lines 28-34: the six derived parts of one datetime column
DateParts(col, dt) ==
    ((col \o "_date") :> DtDate(dt)) @@ ((col \o "_year") :> DtYear(dt))
    @@ ((col \o "_month") :> DtMonth(dt)) @@ ((col \o "_day") :> DtDay(dt))
    @@ ((col \o "_weekday") :> DtDayName(dt)) @@ ((col \o "_hour") :> DtHour(dt))

\* A float number of hours, kept exact: seconds / 3600.0
Hours(secs) == [num |-> secs, den |-> 3600]

\* A transform that fills the missing duration with zero (fillna(0)).
TimeToClose_FillZero(closed, created) ==
    IF IsAbsent(closed) \/ IsAbsent(created) THEN Some(Hours(0))
    ELSE Some(Hours(closed[1] - created[1]))

\* transform.py lines 40-42: NaT on either side gives NaT, hence NaN
TimeToClose(closed, created) ==
    IF IsAbsent(closed) \/ IsAbsent(created) THEN Absent
    ELSE Some(Hours(closed[1] - created[1]))

\* One row of the frame transform() writes.  Timestamps are parsed on read
\* (parse_dates) and written back as text by to_sql.
TransformRow(r) ==
    LET dt == [c \in {datetime_cols[i] : i \in 1..Len(datetime_cols)} |-> ParseTs(r[c])]
    IN  ("time_to_close_hours" :>
            TimeToClose(dt["ticket_closed_date_time"], dt["ticket_created_date_time"]))
        @@ ("created_str" :> FormatTs(dt["ticket_created_date_time"]))
        @@ DateParts(datetime_cols[1], dt[datetime_cols[1]])
        @@ DateParts(datetime_cols[2], dt[datetime_cols[2]])
        @@ DateParts(datetime_cols[3], dt[datetime_cols[3]])
        @@ [c \in DOMAIN r |-> IF c \in DOMAIN dt THEN FormatTs(dt[c]) ELSE r[c]]

TransformFrame(rows) == [i \in 1..Len(rows) |-> TransformRow(rows[i])]

(* -------------------------------- train -------------------------------- *)
\* train_model.py line 33: dropna on the two parsed timestamps
IsEligible(r) ==
    /\ ~IsAbsent(ParseTs(r["ticket_closed_date_time"]))
    /\ ~IsAbsent(ParseTs(r["ticket_created_date_time"]))
Eligible(rows) == SelectSeq(rows, IsEligible)

\* A trainer whose own subtraction has the operands the other way round.
TrainTarget_Swapped(r) ==
    Some(Hours(ParseTs(r["ticket_created_date_time"])[1]
               - ParseTs(r["ticket_closed_date_time"])[1]))

\* train_model.py lines 40-42: the target, computed by the trainer itself
\* from the timestamps it parsed; it overwrites the stored column.
TrainTarget(r) ==
    Some(Hours(ParseTs(r["ticket_closed_date_time"])[1]
               - ParseTs(r["ticket_created_date_time"])[1]))

\* train_model.py lines 50-55
features == <<"issue_category", "ticket_created_date_time_weekday",
              "ticket_created_date_time_month", "ticket_created_date_time_hour">>

\* An X_pred whose month and hour keys are written in the other order.
X_pred_columns_Reordered ==
    <<"issue_category", "ticket_created_date_time_weekday",
      "ticket_created_date_time_hour", "ticket_created_date_time_month">>

\* app.py lines 138-143: the columns of X_pred in dict order
X_pred_columns == <<"issue_category", "ticket_created_date_time_weekday",
                    "ticket_created_date_time_month", "ticket_created_date_time_hour">>

SeqRange(s) == {s[i] : i \in 1..Len(s)}

\* train_test_split(test_size=0.2): n_test = ceil(0.2 n), n_train = n - n_test
NTest(n) == (n + 4) \div 5
NTrain(n) == n - NTest(n)

\* Whether train_model.py runs to completion on the table rows it read:
\* df[features] needs the columns, train_test_split needs a nonempty train set.
TrainSucceeds(rows) ==
    /\ \A i \in 1..Len(rows) : SeqRange(features) \subseteq DOMAIN rows[i]
    /\ NTrain(Len(Eligible(rows))) > 0

\* train_model.py lines 40-42: the columns the target is computed from
target_columns == {"ticket_closed_date_time", "ticket_created_date_time"}

\* The fitted pipeline that joblib.dump persists, with the table columns its
\* target was derived from.
FitModel(rows) ==
    LET el == Eligible(rows)
    IN [feature_names |-> features,
        y |-> [i \in 1..Len(el) |-> TrainTarget(el[i])],
        target_from |-> target_columns,
        n_train |-> NTrain(Len(el)),
        n_test |-> NTest(Len(el))]

(* ------------------------------- state --------------------------------- *)
RAW == "service_requests"
TRANSFORMED == "service_requests_transformed"
TableNames == {RAW, TRANSFORMED}

\* A table of commonwealth_connect.db: absent from the file, or its rows.
Missing == [exists |-> FALSE, rows |-> <<>>]
Table(rows) == [exists |-> TRUE, rows |-> rows]

Stages == {"extract", "transform", "train"}

VARIABLES
    source,       \* the remote dataset: the sequence of row ids it serves
    srcChanges,   \* how often the remote dataset changed so far
    db,           \* commonwealth_connect.db: table name -> table
    artifact,     \* time_to_close_model.joblib: <<>> or <<fitted model>>
    job,          \* the script that is running: "none" or a stage
    pc,           \* where the running script is
    chunks,       \* extract_all_csv: the pages fetched so far
    offset,       \* extract_all_csv: the offset of the next request
    df,           \* the frame the running script holds
    exits,        \* stage -> "none", "running", "ok", "failed": how its script last ended
    flow,         \* etl_flow: "off", the stage it is in, "completed" or "failed"
    view,         \* app.py: what load_data returned, and what the table was then
    pred,         \* app.py: the last X_pred handed to model.predict
    run,          \* history of the current / last extraction run
    tRuns,        \* history of the last two completed transform runs
    trainIn       \* the rows the last training run read

vars == <<source, srcChanges, db, artifact, job, pc, chunks, offset, df, exits,
          flow, view, pred, run, tRuns, trainIn>>

RowsOf(ids) == [i \in 1..Len(ids) |-> RawRow(ids[i])]

NoRun == [rawBefore |-> Missing, srcAtStart |-> <<>>, stable |-> TRUE,
          pageFailed |-> FALSE, requests |-> <<>>]
NoView == [state |-> "none", seen |-> Missing, inWrite |-> FALSE,
           old |-> Missing, new |-> <<>>]
NoPred == [made |-> FALSE, columns |-> <<>>, feature_names |-> <<>>]

\* A fresh checkout: no database file, no model file; the remote dataset
\* holds some of the rows, in id order.
Init ==
    /\ source \in {[i \in 1..n |-> i] : n \in 0..MaxRows}
    /\ srcChanges = 0
    /\ db = [t \in TableNames |-> Missing]
    /\ artifact = <<>>
    /\ job = "none"
    /\ pc = "idle"
    /\ chunks = <<>>
    /\ offset = 0
    /\ df = <<>>
    /\ exits = [s \in Stages |-> "none"]
    /\ flow = "off"
    /\ view = NoView
    /\ pred = NoPred
    /\ run = NoRun
    /\ tRuns = <<>>
    /\ trainIn = <<>>

(* --------------------------- the remote source ------------------------- *)
InsertAt(s, pos, x) == SubSeq(s, 1, pos - 1) \o <<x>> \o SubSeq(s, pos, Len(s))
RemoveAt(s, pos) == SubSeq(s, 1, pos - 1) \o SubSeq(s, pos + 1, Len(s))

\* The ghost part of a change of the remote dataset: an extraction that is
\* still fetching no longer sees one fixed dataset.
SourceMoved ==
    /\ srcChanges < MaxSourceChanges
    /\ srcChanges' = srcChanges + 1
    /\ run' = IF job = "extract" /\ pc = "fetch" THEN [run EXCEPT !.stable = FALSE] ELSE run
    /\ UNCHANGED <<db, artifact, job, pc, chunks, offset, df, exits, flow, view,
                   pred, tRuns, trainIn>>

\* A new service request appears in the remote dataset.
SourceInsert ==
    /\ \E i \in RowIds \ SeqRange(source), pos \in 1..(Len(source) + 1) :
           source' = InsertAt(source, pos, i)
    /\ SourceMoved

\* A service request disappears from the remote dataset.
SourceDelete ==
    /\ \E pos \in 1..Len(source) : source' = RemoveAt(source, pos)
    /\ SourceMoved

(* ------------------------- running the scripts -------------------------- *)
\* A script ends: its exit status is what its caller sees.
Finish(stage, status) ==
    /\ job' = "none"
    /\ pc' = "idle"
    /\ exits' = [exits EXCEPT ![stage] = status]

\* extract.py lines 25-26: extract_all_csv begins
StartExtract ==
    /\ job' = "extract"
    /\ pc' = "fetch"
    /\ chunks' = <<>>
    /\ offset' = 0
    /\ exits' = [exits EXCEPT !["extract"] = "running"]
    /\ run' = [rawBefore |-> db[RAW], srcAtStart |-> source, stable |-> TRUE,
               pageFailed |-> FALSE, requests |-> <<>>]
    /\ UNCHANGED <<source, srcChanges, db, artifact, df, view, pred, tRuns, trainIn>>

\* A page loop that advances the offset by one row instead of one page.
FetchPage_OffsetByOne ==
    /\ job = "extract" /\ pc = "fetch"
    /\ Page(source, PAGE_SIZE, offset) # <<>>
    /\ chunks' = Append(chunks, RowsOf(Page(source, PAGE_SIZE, offset)))
    /\ offset' = offset + 1
    /\ run' = [run EXCEPT !.requests = Append(@, offset)]
    /\ UNCHANGED <<source, srcChanges, db, artifact, job, pc, df, exits, flow,
                   view, pred, tRuns, trainIn>>

\* extract.py lines 28-43: one page is read and is not empty
FetchPage ==
    /\ job = "extract" /\ pc = "fetch"
    /\ Page(source, PAGE_SIZE, offset) # <<>>
    /\ chunks' = Append(chunks, RowsOf(Page(source, PAGE_SIZE, offset)))
    /\ offset' = offset + PAGE_SIZE
    /\ run' = [run EXCEPT !.requests = Append(@, offset)]
    /\ UNCHANGED <<source, srcChanges, db, artifact, job, pc, df, exits, flow,
                   view, pred, tRuns, trainIn>>

\* extract.py lines 37-39, 46: the page is empty, the loop ends and the
\* pages are concatenated; pd.concat of no pages raises ValueError.
FetchLast ==
    /\ job = "extract" /\ pc = "fetch"
    /\ Page(source, PAGE_SIZE, offset) = <<>>
    /\ run' = [run EXCEPT !.requests = Append(@, offset)]
    /\ IF chunks = <<>>
          THEN Finish("extract", "failed") /\ df' = df
          ELSE /\ df' = Concat(chunks)
               /\ pc' = "to_sql"
               /\ UNCHANGED <<job, exits>>
    /\ UNCHANGED <<source, srcChanges, db, artifact, chunks, offset, flow, view,
                   pred, tRuns, trainIn>>

\* An extractor that writes the pages it has when a request fails.
FetchFail_WritesPartial ==
    /\ job = "extract" /\ pc = "fetch"
    /\ run' = [run EXCEPT !.pageFailed = TRUE, !.requests = Append(@, offset)]
    /\ Finish("extract", "failed")
    /\ db' = [db EXCEPT ![RAW] = Table(Concat(chunks))]
    /\ UNCHANGED <<source, srcChanges, artifact, chunks, offset, df, flow,
                   view, pred, tRuns, trainIn>>

\* extract.py line 37: pd.read_csv raises (transport error, rejected token);
\* nothing catches it, the script ends with the traceback.
FetchFail ==
    /\ job = "extract" /\ pc = "fetch"
    /\ run' = [run EXCEPT !.pageFailed = TRUE, !.requests = Append(@, offset)]
    /\ Finish("extract", "failed")
    /\ UNCHANGED <<source, srcChanges, db, artifact, chunks, offset, df, flow,
                   view, pred, tRuns, trainIn>>

\* The table the running script writes with to_sql.
Target == IF job = "extract" THEN RAW ELSE TRANSFORMED

\* DataFrame.to_sql(name, conn, if_exists="replace") on a sqlite3 connection
\* is three statements, each committed on its own: DROP TABLE when the table
\* exists, CREATE TABLE, then the INSERT of all rows.
ToSqlDrop ==
    /\ job \in {"extract", "transform"} /\ pc = "to_sql"
    /\ db[Target].exists
    /\ db' = [db EXCEPT ![Target] = Missing]
    /\ pc' = "create"
    /\ UNCHANGED <<source, srcChanges, artifact, job, chunks, offset, df, exits,
                   flow, view, pred, run, tRuns, trainIn>>

ToSqlCreate ==
    /\ job \in {"extract", "transform"}
    /\ pc = "create" \/ (pc = "to_sql" /\ ~db[Target].exists)
    /\ db' = [db EXCEPT ![Target] = Table(<<>>)]
    /\ pc' = "insert"
    /\ UNCHANGED <<source, srcChanges, artifact, job, chunks, offset, df, exits,
                   flow, view, pred, run, tRuns, trainIn>>

\* The table as it was when the running script began.
Before == IF job = "extract" THEN run.rawBefore ELSE tRuns[Len(tRuns)].before

\* A write that adds the frame to the rows the table had (if_exists="append").
ToSqlInsert_Append ==
    /\ job \in {"extract", "transform"} /\ pc = "insert"
    /\ db' = [db EXCEPT ![Target] = Table(Before.rows \o df)]
    /\ Finish(job, "ok")
    /\ tRuns' = IF job = "transform"
                   THEN [tRuns EXCEPT ![Len(tRuns)].rawOut = db'[RAW],
                                      ![Len(tRuns)].out = db'[TRANSFORMED],
                                      ![Len(tRuns)].done = TRUE]
                   ELSE tRuns
    /\ UNCHANGED <<source, srcChanges, artifact, chunks, offset, df, flow, view,
                   pred, run, trainIn>>

\* The insert commits, the connection is closed and the script ends.
ToSqlInsert ==
    /\ job \in {"extract", "transform"} /\ pc = "insert"
    /\ db' = [db EXCEPT ![Target] = Table(df)]
    /\ Finish(job, "ok")
    /\ tRuns' = IF job = "transform"
                   THEN [tRuns EXCEPT ![Len(tRuns)].rawOut = db'[RAW],
                                      ![Len(tRuns)].out = db'[TRANSFORMED],
                                      ![Len(tRuns)].done = TRUE]
                   ELSE tRuns
    /\ UNCHANGED <<source, srcChanges, artifact, chunks, offset, df, flow, view,
                   pred, run, trainIn>>

\* transform.py lines 11-42: the raw table is read and the frame is computed;
\* pd.read_sql raises when the table does not exist.
StartTransform ==
    /\ IF db[RAW].exists
          THEN /\ job' = "transform"
               /\ pc' = "to_sql"
               /\ df' = TransformFrame(db[RAW].rows)
               /\ exits' = [exits EXCEPT !["transform"] = "running"]
               /\ tRuns' = (IF Len(tRuns) = 2 THEN Tail(tRuns) ELSE tRuns)
                           \o <<[rawIn |-> db[RAW], rawOut |-> db[RAW],
                                 before |-> db[TRANSFORMED], out |-> Missing,
                                 done |-> FALSE]>>
          ELSE /\ Finish("transform", "failed")
               /\ UNCHANGED <<df, tRuns>>
    /\ UNCHANGED <<source, srcChanges, db, artifact, chunks, offset, view, pred,
                   run, trainIn>>

\* train_model.py lines 23-27: the transformed table is read
StartTrain ==
    /\ IF db[TRANSFORMED].exists
          THEN /\ job' = "train"
               /\ pc' = "fit"
               /\ trainIn' = db[TRANSFORMED].rows
               /\ exits' = [exits EXCEPT !["train"] = "running"]
          ELSE /\ Finish("train", "failed")
               /\ trainIn' = <<>>
    /\ UNCHANGED <<source, srcChanges, db, artifact, chunks, offset, df, view,
                   pred, run, tRuns>>

\* train_model.py lines 33-88: filter, target, split, fit, score, dump
TrainFit ==
    /\ job = "train" /\ pc = "fit"
    /\ TrainSucceeds(trainIn)
    /\ artifact' = <<FitModel(trainIn)>>
    /\ Finish("train", "ok")
    /\ UNCHANGED <<source, srcChanges, db, chunks, offset, df, flow, view, pred,
                   run, tRuns, trainIn>>

\* train_model.py lines 56, 79: KeyError or ValueError ends the script
TrainFail ==
    /\ job = "train" /\ pc = "fit"
    /\ ~TrainSucceeds(trainIn)
    /\ Finish("train", "failed")
    /\ UNCHANGED <<source, srcChanges, db, artifact, chunks, offset, df, flow,
                   view, pred, run, tRuns, trainIn>>

\* No etl_flow run is between its first and its last stage.
FlowIdle == flow \in {"off", "completed", "failed"}

\* python extract.py / transform.py / train_model.py run by hand, one at a time
RunExtract == job = "none" /\ FlowIdle /\ StartExtract /\ UNCHANGED flow
RunTransform == job = "none" /\ FlowIdle /\ StartTransform /\ UNCHANGED flow
RunTrain == job = "none" /\ FlowIdle /\ StartTrain /\ UNCHANGED flow

(* ------------------------------- etl_flow ------------------------------- *)
\* prefect_flow.py lines 54-55: the flow starts and calls extract_data()
FlowStart ==
    /\ job = "none" /\ FlowIdle
    /\ flow' = "extract"
    /\ StartExtract

\* A flow that goes on to transform_data() whatever extract_data() did.
FlowTransform_IgnoresFailure ==
    /\ flow = "extract" /\ job = "none" /\ exits["extract"] \in {"ok", "failed"}
    /\ flow' = "transform"
    /\ StartTransform

\* prefect_flow.py line 56: extract_data() returned, transform_data() is called
FlowTransform ==
    /\ flow = "extract" /\ job = "none" /\ exits["extract"] = "ok"
    /\ flow' = "transform"
    /\ StartTransform

\* prefect_flow.py line 57: transform_data() returned, train_model() is called
FlowTrain ==
    /\ flow = "transform" /\ job = "none" /\ exits["transform"] = "ok"
    /\ flow' = "train"
    /\ StartTrain

\* prefect_flow.py line 58: train_model() returned
FlowComplete ==
    /\ flow = "train" /\ job = "none" /\ exits["train"] = "ok"
    /\ flow' = "completed"
    /\ UNCHANGED <<source, srcChanges, db, artifact, job, pc, chunks, offset, df,
                   exits, view, pred, run, tRuns, trainIn>>

\* ShellOperation.run() raises on a script that exits nonzero; the task fails
\* and its exception leaves etl_flow at the call.
FlowFail ==
    /\ flow \in Stages /\ job = "none" /\ exits[flow] = "failed"
    /\ flow' = "failed"
    /\ UNCHANGED <<source, srcChanges, db, artifact, job, pc, chunks, offset, df,
                   exits, view, pred, run, tRuns, trainIn>>

(* -------------------------------- app.py -------------------------------- *)
Writing(t) ==
    /\ job \in {"extract", "transform"}
    /\ pc \in {"to_sql", "create", "insert"}
    /\ Target = t

\* app.py lines 7-27: load_data reads the transformed table on its own
\* connection, whatever the pipeline is doing.
AppLoad ==
    /\ view' = [state |-> IF db[TRANSFORMED].exists THEN "loaded" ELSE "error",
                seen |-> db[TRANSFORMED],
                inWrite |-> Writing(TRANSFORMED),
                old |-> IF Writing(TRANSFORMED) THEN tRuns[Len(tRuns)].before ELSE Missing,
                new |-> IF Writing(TRANSFORMED) THEN df ELSE <<>>]
    /\ UNCHANGED <<source, srcChanges, db, artifact, job, pc, chunks, offset, df,
                   exits, flow, pred, run, tRuns, trainIn>>

\* app.py lines 31, 76-80, 138-145: the model is loaded, the category select
\* box looks up its default (list.index raises when it is not there), X_pred
\* is built and handed to model.predict.
AppPredict ==
    /\ view.state = "loaded"
    /\ artifact # <<>>
    /\ \E i \in 1..Len(view.seen.rows) :
           view.seen.rows[i]["issue_category"] = Some("Missed Recycling Pickup")
    /\ pred' = [made |-> TRUE, columns |-> X_pred_columns,
                feature_names |-> artifact[1].feature_names]
    /\ UNCHANGED <<source, srcChanges, db, artifact, job, pc, chunks, offset, df,
                   exits, flow, view, run, tRuns, trainIn>>

(* --------------------------- the specification -------------------------- *)
\* The extractor against a remote dataset that changes under it.
NextExtract ==
    \/ SourceInsert
    \/ SourceDelete
    \/ RunExtract
    \/ FetchPage
    \/ FetchLast
    \/ FetchFail
    \/ ToSqlDrop
    \/ ToSqlCreate
    \/ ToSqlInsert

SpecExtract == Init /\ [][NextExtract]_vars

\* The remote dataset holds any of the rows, in id order.
Arrangements ==
    {s \in UNION {[1..n -> RowIds] : n \in 0..MaxRows} :
        \A i, j \in 1..Len(s) : i < j => s[i] < s[j]}

InitPipeline ==
    /\ source \in Arrangements
    /\ srcChanges = 0
    /\ db = [t \in TableNames |-> Missing]
    /\ artifact = <<>>
    /\ job = "none"
    /\ pc = "idle"
    /\ chunks = <<>>
    /\ offset = 0
    /\ df = <<>>
    /\ exits = [s \in Stages |-> "none"]
    /\ flow = "off"
    /\ view = NoView
    /\ pred = NoPred
    /\ run = NoRun
    /\ tRuns = <<>>
    /\ trainIn = <<>>

\* The scripts, etl_flow and the app against a remote dataset that stays as
\* it is.
NextPipeline ==
    \/ RunExtract
    \/ FetchPage
    \/ FetchLast
    \/ FetchFail
    \/ ToSqlDrop
    \/ ToSqlCreate
    \/ ToSqlInsert
    \/ RunTransform
    \/ RunTrain
    \/ TrainFit
    \/ TrainFail
    \/ FlowStart
    \/ FlowTransform
    \/ FlowTrain
    \/ FlowComplete
    \/ FlowFail
    \/ AppLoad
    \/ AppPredict

SpecPipeline == InitPipeline /\ [][NextPipeline]_vars

Next == NextExtract \/ NextPipeline

Spec == Init /\ [][Next]_vars

(* ============================== the claims ============================== *)
RowsIn(t) == SeqRange(t.rows)

\* C1: when a page request of an extraction run fails (on the first page or
\* after any number of pages), the run ends failed and the raw table is the
\* raw table from before the run.
C1_FailedFetchKeepsRawTable ==
    run.pageFailed => exits["extract"] = "failed" /\ db[RAW] = run.rawBefore

\* C1 witness: a request failed after at least one page had been fetched, and
\* the table from before the run holds something else than those pages.
C1_Witness ==
    /\ run.pageFailed
    /\ Len(chunks) >= 1
    /\ run.rawBefore.exists
    /\ run.rawBefore.rows # Concat(chunks)

\* The offsets a run over n rows requests: 0, PAGE_SIZE, ... up to and
\* including the first one that returns no rows.
ExpectedRequests(n) ==
    [k \in 1..(((n + PAGE_SIZE - 1) \div PAGE_SIZE) + 1) |-> (k - 1) * PAGE_SIZE]

\* C2: a successful extraction from a dataset that did not change during the
\* run leaves a raw table with every source row once, in source order, after
\* requests at offsets 0, PAGE_SIZE, 2*PAGE_SIZE, ... until the empty page.
C2_CompleteInSourceOrder ==
    (exits["extract"] = "ok" /\ run.stable) =>
        /\ db[RAW] = Table(RowsOf(run.srcAtStart))
        /\ Len(db[RAW].rows) = Len(run.srcAtStart)
        /\ run.requests = ExpectedRequests(Len(run.srcAtStart))

\* C2 witness: a successful run over at least two pages, the last one partly
\* filled.
C2_Witness ==
    /\ exits["extract"] = "ok" /\ run.stable
    /\ Len(run.srcAtStart) > PAGE_SIZE
    /\ Len(run.srcAtStart) % PAGE_SIZE # 0
    /\ Len(db[RAW].rows) = Len(run.srcAtStart)

\* C3: a successful extraction writes every record the remote dataset held
\* when the run began, also when the dataset gains or loses rows between two
\* page requests.
C3_EveryRecordVisibleAtStart ==
    exits["extract"] = "ok" =>
        \A i \in SeqRange(run.srcAtStart) : RawRow(i) \in RowsIn(db[RAW])

\* C4: load_data reading the transformed table while a to_sql replace of the
\* existing table is under way gets the complete previous table or the
\* complete new one, never a missing, empty or partly filled table.
C4_ReaderSeesOldOrNew ==
    (view.inWrite /\ view.old.exists) =>
        /\ view.state = "loaded"
        /\ view.seen \in {view.old, Table(view.new)}

\* C5: two completed transform runs that read the same raw table leave the
\* same transformed table, and no transform run changes the raw table.
C5_TransformIdempotent ==
    /\ \A i, j \in 1..Len(tRuns) :
           (tRuns[i].done /\ tRuns[j].done /\ tRuns[i].rawIn = tRuns[j].rawIn)
               => tRuns[i].out = tRuns[j].out
    /\ \A i \in 1..Len(tRuns) : tRuns[i].done => tRuns[i].rawOut = tRuns[i].rawIn

\* C5 witness: transform has completed twice in a row on one raw table, over
\* a table that was already there and holds rows.
C5_Witness ==
    /\ Len(tRuns) = 2
    /\ tRuns[1].done /\ tRuns[2].done
    /\ tRuns[1].rawIn = tRuns[2].rawIn
    /\ tRuns[2].before = tRuns[1].out
    /\ Len(tRuns[2].out.rows) >= 2
    /\ db[TRANSFORMED] = tRuns[2].out

\* The duration a raw row calls for: (closed - created) in hours when it has
\* both timestamps, nothing otherwise.
ExpectedDuration(raw) ==
    LET created == ParseTs(raw["ticket_created_date_time"])
        closed == ParseTs(raw["ticket_closed_date_time"])
    IN IF created = Absent \/ closed = Absent
          THEN Absent
          ELSE Some([num |-> closed[1] - created[1], den |-> 3600])

\* C6: transform writes one row per raw row, and its time_to_close_hours is
\* (closed - created) in hours when both timestamps are present and absent
\* (not zero, not negative) when either is absent.
C6_DurationOrAbsent ==
    \A k \in 1..Len(tRuns) :
        tRuns[k].done =>
            /\ Len(tRuns[k].out.rows) = Len(tRuns[k].rawIn.rows)
            /\ \A i \in 1..Len(tRuns[k].rawIn.rows) :
                   tRuns[k].out.rows[i]["time_to_close_hours"]
                       = ExpectedDuration(tRuns[k].rawIn.rows[i])

\* C6 witness: the transformed table holds a closed ticket with its 24.5
\* hours, an open ticket without a duration and a ticket without a creation
\* timestamp without a duration.
C6_Witness ==
    /\ tRuns # <<>> /\ tRuns[Len(tRuns)].done
    /\ db[TRANSFORMED] = tRuns[Len(tRuns)].out
    /\ \E r \in RowsIn(db[TRANSFORMED]) :
           r["time_to_close_hours"] = Some([num |-> 88200, den |-> 3600])
    /\ \E r \in RowsIn(db[TRANSFORMED]) :
           /\ r["ticket_created_date_time"] # Absent
           /\ r["ticket_closed_date_time"] = Absent
           /\ r["time_to_close_hours"] = Absent
    /\ \E r \in RowsIn(db[TRANSFORMED]) :
           /\ r["ticket_created_date_time"] = Absent
           /\ r["ticket_closed_date_time"] # Absent
           /\ r["time_to_close_hours"] = Absent

\* C7: training runs to completion whenever the table it read has at least
\* one row with both timestamps.
C7_TrainSucceedsWhenNonempty ==
    exits["train"] = "failed" => Len(Eligible(trainIn)) = 0

\* C8 as claimed: the target of the fitted model is read from the stored
\* time_to_close_hours column, not computed by the trainer.
C8_TargetReadFromStoredColumn ==
    artifact # <<>> => artifact[1].target_from = {"time_to_close_hours"}

\* C8 as amended: the target the trainer computes for an eligible row equals
\* the duration the transformer stored in that row.
C8_TargetEqualsStoredDuration ==
    exits["train"] = "ok" =>
        /\ artifact # <<>>
        /\ Len(artifact[1].y) = Len(Eligible(trainIn))
        /\ \A i \in 1..Len(Eligible(trainIn)) :
               artifact[1].y[i] = Eligible(trainIn)[i]["time_to_close_hours"]

\* C8 witness: a model fitted on at least two eligible rows.
C8_Witness ==
    /\ exits["train"] = "ok"
    /\ artifact # <<>>
    /\ Len(artifact[1].y) >= 2

\* C9: the X_pred of a prediction has the four feature names of the fitted
\* model in the same order, and each is a column of the transformed table.
C9_ServingMatchesTraining ==
    pred.made =>
        /\ pred.columns = pred.feature_names
        /\ pred.columns = <<"issue_category", "ticket_created_date_time_weekday",
                            "ticket_created_date_time_month",
                            "ticket_created_date_time_hour">>
        /\ \A r \in RowsIn(view.seen) : SeqRange(pred.columns) \subseteq DOMAIN r
        /\ \A k \in 1..Len(tRuns) : \A r \in RowsIn(tRuns[k].out) :
               SeqRange(pred.feature_names) \subseteq DOMAIN r

\* C9 witness: a prediction was made with a fitted model.
C9_Witness ==
    /\ pred.made
    /\ artifact # <<>>
    /\ view.state = "loaded"

\* C10: etl_flow runs extract, transform, train one after the other, each
\* only after the one before ended successfully; a failed stage makes the
\* flow fail and no later stage of the run starts.
C10_StagesInOrder ==
    [][ /\ (flow \in Stages /\ job # "none") => job = flow
        /\ (flow' = "extract" /\ flow # "extract") => FlowIdle /\ job = "none"
        /\ (flow' = "transform" /\ flow # "transform") =>
               flow = "extract" /\ job = "none" /\ exits["extract"] = "ok"
        /\ (flow' = "train" /\ flow # "train") =>
               flow = "transform" /\ job = "none" /\ exits["transform"] = "ok"
        /\ (flow' = "completed" /\ flow # "completed") =>
               flow = "train" /\ job = "none" /\ exits["train"] = "ok"
        /\ (flow' = "failed" /\ flow # "failed") =>
               flow \in Stages /\ job = "none" /\ exits[flow] = "failed"
        /\ (flow \in Stages /\ job = "none" /\ exits[flow] = "failed") =>
               flow' \in {flow, "failed"} /\ job' = "none"
      ]_vars

\* C10 witness: a flow run whose extract and transform stages succeeded and
\* whose train stage failed has ended failed.
C10_Witness ==
    /\ flow = "failed"
    /\ exits = [s \in Stages |-> IF s = "train" THEN "failed" ELSE "ok"]
    /\ job = "none"

====
